---- MODULE Spec2Model ----
(***************************************************************************)
(* Booking lifecycle and room-availability ledger of the hotel backend,     *)
(* with its restaurant orders, its packages and its login route.           *)
(*                                                                         *)
(* The store holds Room documents (the `available` counter the booking     *)
(* controller reads and writes) and Booking documents.  Every request      *)
(* handler is an async function: each `await` on the store is a point      *)
(* where other requests run, so a handler is modelled as one action per    *)
(* store access, with the handler's local documents kept in its request    *)
(* record between the accesses.  find... returns a copy of the stored      *)
(* document; save() writes the paths the handler assigned (the ODM sends   *)
(* the modified paths only, an array push as an append).  The properties   *)
(* the controllers read and assign on a document (room.available among     *)
(* them) are taken to be stored fields of that document.                   *)
(***************************************************************************)
EXTENDS Integers, Sequences, FiniteSets, TLC

\* ---------------------------------------------------------------- bounds
MaxAvail    == 1      \* largest initial Room.available
MaxRequests == 3      \* requests ever started
MaxLogins   == 6      \* login requests ever started
MaxHours    == 4      \* hours that pass

\* ------------------------------------------------------- program constants
RoomPrice  == 2400    \* Room.price of the seeded room
TaxPercent == 18      \* 18% GST in calculateTotal
DayLen     == 2       \* one day (1000*60*60*24 ms), in half-day units

Rooms   == {"r1"}
Users   == {"u1", "u2"}
Guests  == {"u1"}     \* the users who book
Staff   == {"s1"}
Admins  == {"a1"}     \* the one who edits the packages
Actors  == Users \cup Staff
RoleOf(a) == IF a \in Users THEN "user" ELSE IF a \in Staff THEN "staff" ELSE "admin"
Slots   == {1, 2}     \* two requests are handled at the same time

Null == "null"

\* BookingSchema.status enum
BookingStatuses == {"confirmed", "checked-in", "checked-out", "cancelled", "no-show"}
\* BookingSchema.payment.status enum
PaymentStatuses == {"pending", "paid", "partially-paid", "refunded", "failed"}

\* role hierarchy of the authorize middleware
roleHierarchy(role) ==
    CASE role = "user"    -> 1
      [] role = "staff"   -> 2
      [] role = "manager" -> 3
      [] role = "admin"   -> 4
      [] role = "ceo"     -> 5
      [] OTHER            -> 0

\* authorize(roles): the caller's role is listed, or at least as high as a listed one
authorize(role, allowedRoles) ==
    \/ role \in allowedRoles
    \/ \E r \in allowedRoles : roleHierarchy(role) >= roleHierarchy(r)

VARIABLES
    available,   \* Room.available of every stored room
    total,       \* the room's capacity: available before any booking was made
    bookings,    \* the stored Booking documents, in creation order (_id = index)
    reqs,        \* the request being handled in every slot
    response,    \* the response sent by the latest step, NoResponse if it sent none
    started,     \* number of requests started so far
    orders,      \* the stored Order documents, in creation order (orderId = index)
    intents,     \* the number of payment intents created at the gateway
    packages,    \* the stored Package documents, NoDoc for a deleted one
    account,     \* the stored User document that the login requests name
    now          \* Date.now(), in hours

vars == <<available, total, bookings, reqs, response, started, orders, intents,
          packages, account, now>>

\* the booking store and the order store with the gateway
bookingVars == <<available, total, bookings>>
orderVars   == <<orders, intents>>

\* the package store, and the user store with the clock
packageVars == <<packages>>
accountVars == <<account, now>>

\* ------------------------------------------------------------ pricing
\* Math.ceil(x / d) for d > 0
CeilDiv(x, d) == IF x % d = 0 THEN x \div d ELSE (x \div d) + 1

RECURSIVE SumServices(_)
SumServices(s) ==
    IF s = <<>> THEN 0 ELSE Head(s).price * Head(s).quantity + SumServices(Tail(s))

RECURSIVE SumFood(_)
SumFood(s) ==
    IF s = <<>> THEN 0 ELSE Head(s).totalAmount + SumFood(Tail(s))

\* variant of the computation that leaves the tax out of the total
calculateTotal_NoTax(b) ==
    LET subtotal == b.pricing.roomRate * b.numberOfNights + b.pricing.packagePrice
                    + SumServices(b.additionalServices) + SumFood(b.foodOrders)
    IN  [b EXCEPT !.pricing.servicesTotal = SumServices(b.additionalServices),
                  !.pricing.foodTotal = SumFood(b.foodOrders),
                  !.pricing.taxAmount = (subtotal * TaxPercent) \div 100,
                  !.pricing.totalAmount = subtotal - b.pricing.discountAmount]

\* BookingSchema.methods.calculateTotal: the booking with its pricing overwritten
calculateTotal(b) ==
    LET roomTotal      == b.pricing.roomRate * b.numberOfNights
        packageTotal   == b.pricing.packagePrice
        servicesTotal  == SumServices(b.additionalServices)
        foodTotal      == SumFood(b.foodOrders)
        subtotal       == roomTotal + packageTotal + servicesTotal + foodTotal
        taxAmount      == (subtotal * TaxPercent) \div 100
        discountAmount == b.pricing.discountAmount
    IN  [b EXCEPT !.pricing = [roomRate       |-> b.pricing.roomRate,
                               packagePrice   |-> b.pricing.packagePrice,
                               servicesTotal  |-> servicesTotal,
                               foodTotal      |-> foodTotal,
                               taxAmount      |-> taxAmount,
                               discountAmount |-> discountAmount,
                               totalAmount    |-> subtotal + taxAmount - discountAmount]]

\* ------------------------------------------------------------ requests
NoDoc == [none |-> TRUE]

\* a slot that handles no request
Idle == [op |-> "idle", pc |-> "idle", user |-> Null, bid |-> 0, rid |-> Null,
         doc |-> NoDoc, body |-> NoDoc, room |-> 0, seen |-> Null]

NoResponse == [op |-> "none", user |-> Null, bid |-> 0, rid |-> Null, res |-> 0,
               err |-> Null]

\* res.status(code).json(...) of handler `name`, called by a for booking b or room r
Response(name, a, b, r, code, msg) ==
    [op |-> name, user |-> a, bid |-> b, rid |-> r, res |-> code, err |-> msg]

\* a request is taken by the first idle slot
CanStart(q) ==
    /\ reqs[q].pc = "idle"
    /\ \A p \in Slots : p < q => reqs[p].pc # "idle"
    /\ started < MaxRequests

NewRequest(name, a, b) ==
    [Idle EXCEPT !.op = name, !.user = a, !.bid = b]

\* the handler returns a response without touching the store
Reject(name, a, b, r, code, msg) ==
    /\ reqs' = reqs
    /\ response' = Response(name, a, b, r, code, msg)

\* the handler goes on to its next store access
Proceed(q, request) ==
    /\ reqs' = [reqs EXCEPT ![q] = request]
    /\ response' = NoResponse

\* the handler sends its final response
Finish(q, code, msg) ==
    /\ reqs' = [reqs EXCEPT ![q] = Idle]
    /\ response' = Response(reqs[q].op, reqs[q].user, reqs[q].bid, reqs[q].rid, code, msg)

At(q, name, label) == reqs[q].op = name /\ reqs[q].pc = label

\* the ids a request names: every stored booking, and 0 for an id of no booking
Targets == 0..Len(bookings)

\* Booking.findById(req.params.id)
Exists(b) == b \in 1..Len(bookings)

\* the access check of the booking handlers: a 'user' must own the booking
AccessDenied(a, b) == RoleOf(a) = "user" /\ bookings[b].user # a

\* save(): the assigned paths replace the stored ones
SetPaths(doc, upd) ==
    [k \in DOMAIN doc |-> IF k \in DOMAIN upd THEN upd[k] ELSE doc[k]]

\* ------------------------------------------------------------ packages
PackageIds == {"p1"}

\* a date that is not set is the empty sequence, a set one is <<date>>
Unset == <<>>

\* Date.prototype.toDateString: the calendar day of a date
toDateString(date) == date \div DayLen

\* virtual effectivePrice: the price less the discount
effectivePrice(pkg) == (pkg.price * (100 - pkg.discountPercentage)) \div 100

\* variant of the availability test that skips the blackout dates
isAvailable_NoBlackout(pkg, checkDate) ==
    /\ pkg.isActive
    /\ pkg.availability.startDate # Unset => checkDate >= pkg.availability.startDate[1]
    /\ pkg.availability.endDate # Unset => checkDate <= pkg.availability.endDate[1]

\* PackageSchema.methods.isAvailable
isAvailable(pkg, checkDate) ==
    LET startDate     == pkg.availability.startDate
        endDate       == pkg.availability.endDate
        blackoutDates == pkg.availability.blackoutDates
    IN  IF ~pkg.isActive THEN FALSE
        ELSE IF startDate # Unset /\ checkDate < startDate[1] THEN FALSE
        ELSE IF endDate # Unset /\ checkDate > endDate[1] THEN FALSE
        ELSE IF \E i \in 1..Len(blackoutDates) :
                   toDateString(blackoutDates[i]) = toDateString(checkDate) THEN FALSE
        ELSE TRUE

\* seasons.find(...): the first season that holds the date, <<>> if none does
RECURSIVE FindSeason(_, _)
FindSeason(seasons, checkDate) ==
    IF seasons = <<>> THEN <<>>
    ELSE IF checkDate >= Head(seasons).startDate /\ checkDate <= Head(seasons).endDate
      THEN <<Head(seasons)>>
    ELSE FindSeason(Tail(seasons), checkDate)

\* PackageSchema.methods.getSeasonalPrice
getSeasonalPrice(pkg, checkDate) ==
    LET season    == FindSeason(pkg.seasons, checkDate)
        basePrice == effectivePrice(pkg)
    IN  IF season # <<>> THEN basePrice * season[1].priceModifier ELSE basePrice

\* Package.findById
PackageExists(p) == p \in PackageIds /\ packages[p] # NoDoc

\* checkPackageAvailability: the answer carries isAvailable and currentPrice
CheckPackageAvailability(q, p, date) ==
    /\ CanStart(q)
    /\ started' = started + 1
    /\ reqs' = reqs
    /\ IF ~PackageExists(p)
         THEN response' = Response("checkPackageAvailability", Null, 0, p, 404,
                                   "Package not found")
         ELSE response' = Response("checkPackageAvailability", Null, 0, p, 200, Null)
                          @@ [checkDate    |-> date,
                              isAvailable  |-> isAvailable(packages[p], date),
                              currentPrice |-> getSeasonalPrice(packages[p], date)]
    /\ UNCHANGED <<bookingVars, orderVars, packageVars, accountVars>>

\* variant of the package update that rewrites the bookings made with the package
UpdatePackage_Cascade(q, a, p, body) ==
    /\ CanStart(q)
    /\ authorize(RoleOf(a), {"manager", "admin", "ceo"})
    /\ started' = started + 1
    /\ reqs' = reqs
    /\ IF ~PackageExists(p)
         THEN /\ packages' = packages
              /\ bookings' = bookings
              /\ response' = Response("updatePackage", a, 0, p, 404, "Package not found")
         ELSE /\ packages' = [packages EXCEPT ![p] = SetPaths(@, body)]
              /\ bookings' = [b \in 1..Len(bookings) |->
                               IF bookings[b].selectedPackage # NoDoc
                                  /\ bookings[b].selectedPackage.id = p
                                 THEN calculateTotal(
                                        [bookings[b] EXCEPT !.pricing.packagePrice =
                                            effectivePrice(packages'[p])])
                                 ELSE bookings[b]]
              /\ response' = Response("updatePackage", a, 0, p, 200, Null)
    /\ UNCHANGED <<available, total, orderVars, accountVars>>

\* updatePackage: Package.findByIdAndUpdate(id, req.body)
UpdatePackage(q, a, p, body) ==
    /\ CanStart(q)
    /\ authorize(RoleOf(a), {"manager", "admin", "ceo"})
    /\ started' = started + 1
    /\ reqs' = reqs
    /\ IF ~PackageExists(p)
         THEN /\ packages' = packages
              /\ response' = Response("updatePackage", a, 0, p, 404, "Package not found")
         ELSE /\ packages' = [packages EXCEPT ![p] = SetPaths(@, body)]
              /\ response' = Response("updatePackage", a, 0, p, 200, Null)
    /\ UNCHANGED <<bookingVars, orderVars, accountVars>>

\* deletePackage: Package.findByIdAndDelete(id)
DeletePackage(q, a, p) ==
    /\ CanStart(q)
    /\ authorize(RoleOf(a), {"admin", "ceo"})
    /\ started' = started + 1
    /\ reqs' = reqs
    /\ IF ~PackageExists(p)
         THEN /\ packages' = packages
              /\ response' = Response("deletePackage", a, 0, p, 404, "Package not found")
         ELSE /\ packages' = [packages EXCEPT ![p] = NoDoc]
              /\ response' = Response("deletePackage", a, 0, p, 200, Null)
    /\ UNCHANGED <<bookingVars, orderVars, accountVars>>

\* ------------------------------------------------------- createBooking
\* new Booking({...}) followed by booking.calculateTotal()
NewBooking(a, r, ci, co, price) ==
    calculateTotal(
      [user |-> a, room |-> r, bookingNumber |-> 0,
       checkInDate |-> ci, checkOutDate |-> co,
       numberOfNights |-> CeilDiv(co - ci, DayLen),
       additionalServices |-> <<>>, foodOrders |-> <<>>,
       specialRequests |-> "none",
       pricing |-> [roomRate |-> price, packagePrice |-> 0, servicesTotal |-> 0,
                    foodTotal |-> 0, taxAmount |-> 0, discountAmount |-> 0,
                    totalAmount |-> 0],
       selectedPackage |-> NoDoc, serviceRequests |-> <<>>,
       payment |-> "pending", status |-> "confirmed",
       actualCheckIn |-> Null, actualCheckOut |-> Null, review |-> 0])

\* variants of the availability test: one that lets a count of 0 through,
\* one that refuses nothing
NotAvailable_BelowZero(avail) == avail < 0
NotAvailable_Never(avail) == FALSE

\* room.available < 1
NotAvailable(avail) == avail < 1

\* validate the dates, load the room, test its availability, build the booking
CreateBooking_Start(q, a, r, ci, co, selectedPackage) ==
    /\ CanStart(q)
    /\ authorize(RoleOf(a), {"user"})
    /\ started' = started + 1
    /\ IF ci < 0
         THEN Reject("createBooking", a, 0, r, 400, "Check-in date cannot be in the past")
       ELSE IF co <= ci
         THEN Reject("createBooking", a, 0, r, 400, "Check-out date must be after check-in date")
       ELSE IF NotAvailable(available[r])
         THEN Reject("createBooking", a, 0, r, 400, "Room is not available")
       ELSE Proceed(q, [NewRequest("createBooking", a, 0) EXCEPT
                          !.pc = IF selectedPackage # Null THEN "findPackage"
                                 ELSE "numberBooking",
                          !.rid = r, !.room = available[r],
                          !.body = [selectedPackage |-> selectedPackage],
                          !.doc = NewBooking(a, r, ci, co, RoomPrice)])
    /\ UNCHANGED <<available, total, bookings, orderVars, packageVars, accountVars>>

\* packageData: what the booking keeps of the package
PackageData(p, packagePrice) == [id |-> p, price |-> packagePrice]

\* Package.findById(selectedPackage): an available package enters the booking
CreateBooking_FindPackage(q) ==
    /\ At(q, "createBooking", "findPackage")
    /\ LET p       == reqs[q].body.selectedPackage
           checkIn == reqs[q].doc.checkInDate
       IN  IF PackageExists(p) /\ isAvailable(packages[p], checkIn)
             THEN LET packagePrice == getSeasonalPrice(packages[p], checkIn) IN
                  Proceed(q, [reqs[q] EXCEPT
                      !.pc = "numberBooking",
                      !.doc = calculateTotal(
                                [@ EXCEPT !.selectedPackage =
                                              PackageData(p, packagePrice),
                                          !.pricing.packagePrice = packagePrice])])
             ELSE Proceed(q, [reqs[q] EXCEPT !.pc = "numberBooking"])
    /\ UNCHANGED <<available, total, bookings, started, orderVars, packageVars, accountVars>>

\* the highest booking number stored (all bookings are of the same day), 0 if none
RECURSIVE MaxNumber(_)
MaxNumber(s) ==
    IF s = <<>> THEN 0
    ELSE LET m == MaxNumber(Tail(s)) IN
         IF Head(s).bookingNumber > m THEN Head(s).bookingNumber ELSE m

\* pre('save') hook: the sequence number after the last booking of the day
NextBookingNumber(s) == MaxNumber(s) + 1

CreateBooking_Number(q) ==
    /\ At(q, "createBooking", "numberBooking")
    /\ Proceed(q, [reqs[q] EXCEPT !.pc = "saveBooking",
                                  !.doc.bookingNumber = NextBookingNumber(bookings)])
    /\ UNCHANGED <<available, total, bookings, started, orderVars, packageVars, accountVars>>

\* variant of the index that lets every number in
DuplicateNumber_Never(n) == FALSE

\* unique index on bookingNumber
DuplicateNumber(n) == \E i \in 1..Len(bookings) : bookings[i].bookingNumber = n

\* booking.save(): the insert; a store error or a duplicate key ends the request
CreateBooking_SaveBooking(q, ok) ==
    /\ At(q, "createBooking", "saveBooking")
    /\ IF ok /\ ~DuplicateNumber(reqs[q].doc.bookingNumber)
         THEN /\ bookings' = Append(bookings, reqs[q].doc)
              /\ Proceed(q, [reqs[q] EXCEPT !.pc = "saveRoom",
                                            !.bid = Len(bookings) + 1,
                                            !.doc = NoDoc])
         ELSE /\ bookings' = bookings
              /\ Finish(q, 500, "Failed to create booking")
    /\ UNCHANGED <<available, total, started, orderVars, packageVars, accountVars>>

\* room.available -= 1 on the room document loaded at the start
Reserve(avail) == avail - 1

\* room.save(); a store error ends the request
CreateBooking_SaveRoom(q, ok) ==
    /\ At(q, "createBooking", "saveRoom")
    /\ IF ok
         THEN /\ available' = [available EXCEPT ![reqs[q].rid] = Reserve(reqs[q].room)]
              /\ Finish(q, 201, Null)
         ELSE /\ available' = available
              /\ Finish(q, 500, "Failed to create booking")
    /\ UNCHANGED <<total, bookings, started, orderVars, packageVars, accountVars>>

\* ------------------------------------------------------- cancelBooking
\* variant of the status test that refuses a cancelled booking only
Cancellable_NotCancelled(status) == status # "cancelled"

\* ['confirmed', 'checked-in'].includes(booking.status)
Cancellable(status) == status \in {"confirmed", "checked-in"}

\* load the booking, check access and status, set status = 'cancelled'
CancelBooking_Start(q, a, b) ==
    /\ CanStart(q)
    /\ started' = started + 1
    /\ IF ~Exists(b)
         THEN Reject("cancelBooking", a, b, Null, 404, "Booking not found")
       ELSE IF AccessDenied(a, b)
         THEN Reject("cancelBooking", a, b, Null, 403, "Access denied")
       ELSE IF ~Cancellable(bookings[b].status)
         THEN Reject("cancelBooking", a, b, Null, 400,
                     "Booking cannot be cancelled in current status")
       ELSE Proceed(q, [NewRequest("cancelBooking", a, b) EXCEPT
                          !.pc = "saveBooking", !.seen = bookings[b].status,
                          !.rid = bookings[b].room])
    /\ UNCHANGED <<available, total, bookings, orderVars, packageVars, accountVars>>

\* the paths cancelBooking assigns before booking.save()
CancelUpdate == [status |-> "cancelled"]

CancelBooking_SaveBooking(q) ==
    /\ At(q, "cancelBooking", "saveBooking")
    /\ bookings' = [bookings EXCEPT ![reqs[q].bid] = SetPaths(@, CancelUpdate)]
    /\ Proceed(q, [reqs[q] EXCEPT !.pc = "findRoom"])
    /\ UNCHANGED <<available, total, started, orderVars, packageVars, accountVars>>

\* Room.findById(booking.room), in cancelBooking and in checkOutBooking
Release_FindRoom(q) ==
    /\ reqs[q].op \in {"cancelBooking", "checkOutBooking"} /\ reqs[q].pc = "findRoom"
    /\ Proceed(q, [reqs[q] EXCEPT !.pc = "saveRoom", !.room = available[reqs[q].rid]])
    /\ UNCHANGED <<available, total, bookings, started, orderVars, packageVars, accountVars>>

\* room.available += 1 on the room document just loaded
Release(avail) == avail + 1

\* room.save(), in cancelBooking and in checkOutBooking
Release_SaveRoom(q) ==
    /\ reqs[q].op \in {"cancelBooking", "checkOutBooking"} /\ reqs[q].pc = "saveRoom"
    /\ available' = [available EXCEPT ![reqs[q].rid] = Release(reqs[q].room)]
    /\ Finish(q, 200, Null)
    /\ UNCHANGED <<total, bookings, started, orderVars, packageVars, accountVars>>

\* ------------------------------------------------------ checkInBooking
\* variant of the status test that also lets a checked-in booking through
CheckInRefused_LetsCheckedIn(status) == status \notin {"confirmed", "checked-in"}

\* booking.status !== 'confirmed'
CheckInRefused(status) == status # "confirmed"

CheckInBooking_Start(q, a, b) ==
    /\ CanStart(q)
    /\ started' = started + 1
    /\ IF ~authorize(RoleOf(a), {"staff", "manager", "admin"})
         THEN Reject("checkInBooking", a, b, Null, 403, "Not authorized to access this resource")
       ELSE IF ~Exists(b)
         THEN Reject("checkInBooking", a, b, Null, 404, "Booking not found")
       ELSE IF CheckInRefused(bookings[b].status)
         THEN Reject("checkInBooking", a, b, Null, 400, "Booking must be confirmed to check in")
       ELSE Proceed(q, [NewRequest("checkInBooking", a, b) EXCEPT
                          !.pc = "saveBooking", !.seen = bookings[b].status])
    /\ UNCHANGED <<available, total, bookings, orderVars, packageVars, accountVars>>

\* the paths checkInBooking assigns: status and actualCheckIn = new Date()
CheckInUpdate == [status |-> "checked-in", actualCheckIn |-> "now"]

CheckInBooking_SaveBooking(q) ==
    /\ At(q, "checkInBooking", "saveBooking")
    /\ bookings' = [bookings EXCEPT ![reqs[q].bid] = SetPaths(@, CheckInUpdate)]
    /\ Finish(q, 200, Null)
    /\ UNCHANGED <<available, total, started, orderVars, packageVars, accountVars>>

\* ----------------------------------------------------- checkOutBooking
\* variant of the status test that also lets a confirmed booking through
CheckOutRefused_LetsConfirmed(status) == status \notin {"checked-in", "confirmed"}

\* booking.status !== 'checked-in'
CheckOutRefused(status) == status # "checked-in"

CheckOutBooking_Start(q, a, b) ==
    /\ CanStart(q)
    /\ started' = started + 1
    /\ IF ~authorize(RoleOf(a), {"staff", "manager", "admin"})
         THEN Reject("checkOutBooking", a, b, Null, 403, "Not authorized to access this resource")
       ELSE IF ~Exists(b)
         THEN Reject("checkOutBooking", a, b, Null, 404, "Booking not found")
       ELSE IF CheckOutRefused(bookings[b].status)
         THEN Reject("checkOutBooking", a, b, Null, 400, "Guest must be checked in to check out")
       ELSE Proceed(q, [NewRequest("checkOutBooking", a, b) EXCEPT
                          !.pc = "saveBooking", !.seen = bookings[b].status,
                          !.rid = bookings[b].room])
    /\ UNCHANGED <<available, total, bookings, orderVars, packageVars, accountVars>>

\* the paths checkOutBooking assigns: status and actualCheckOut = new Date()
CheckOutUpdate == [status |-> "checked-out", actualCheckOut |-> "now"]

CheckOutBooking_SaveBooking(q) ==
    /\ At(q, "checkOutBooking", "saveBooking")
    /\ bookings' = [bookings EXCEPT ![reqs[q].bid] = SetPaths(@, CheckOutUpdate)]
    /\ Proceed(q, [reqs[q] EXCEPT !.pc = "findRoom"])
    /\ UNCHANGED <<available, total, started, orderVars, packageVars, accountVars>>

\* ------------------------------------------------------- updateBooking
\* the fields a 'user' may update (and a variant that adds the status), and the
\* fields staff may update
UserFields_WithStatus == {"specialRequests", "status"}
UserFields  == {"specialRequests"}
StaffFields == {"status", "actualCheckIn", "actualCheckOut", "specialRequests", "pricing"}

\* the keys of req.body that are allowed fields, with their values
AllowedUpdates(body, allowedFields) ==
    [k \in DOMAIN body \cap allowedFields |-> body[k]]

\* a pricing sub-document sent by a client
BodyPricing == [roomRate |-> RoomPrice, packagePrice |-> 0, servicesTotal |-> 0,
                foodTotal |-> 0, taxAmount |-> 0, discountAmount |-> 0,
                totalAmount |-> 1]

\* request bodies of PUT /bookings/:id
UpdateBodies ==
    {[status |-> "confirmed"], [status |-> "checked-out"], [status |-> "no-show"],
     [status |-> "bogus"],
     [specialRequests |-> "late", bookingNumber |-> 7],
     [pricing |-> BodyPricing],
     [status |-> "checked-in", actualCheckIn |-> "t0", payment |-> "paid"]}

\* load the booking, check access, collect the allowed fields of the body
UpdateBooking_Start(q, a, b, body) ==
    /\ CanStart(q)
    /\ started' = started + 1
    /\ IF ~Exists(b)
         THEN Reject("updateBooking", a, b, Null, 404, "Booking not found")
       ELSE IF AccessDenied(a, b)
         THEN Reject("updateBooking", a, b, Null, 403, "Access denied")
       ELSE IF RoleOf(a) = "user" /\ bookings[b].status # "confirmed"
         THEN Reject("updateBooking", a, b, Null, 400, "Cannot modify booking in current status")
       ELSE Proceed(q, [NewRequest("updateBooking", a, b) EXCEPT
                          !.pc = "saveBooking", !.seen = bookings[b].status,
                          !.body = AllowedUpdates(body, IF RoleOf(a) = "user"
                                                          THEN UserFields
                                                          ELSE StaffFields)])
    /\ UNCHANGED <<available, total, bookings, orderVars, packageVars, accountVars>>

\* schema validation of the assigned paths: status must be one of the enum
ValidUpdate(upd) == "status" \in DOMAIN upd => upd.status \in BookingStatuses

UpdateBooking_SaveBooking(q) ==
    /\ At(q, "updateBooking", "saveBooking")
    /\ IF ValidUpdate(reqs[q].body)
         THEN /\ bookings' = [bookings EXCEPT ![reqs[q].bid] = SetPaths(@, reqs[q].body)]
              /\ Finish(q, 200, Null)
         ELSE /\ bookings' = bookings
              /\ Finish(q, 500, "Failed to update booking")
    /\ UNCHANGED <<available, total, started, orderVars, packageVars, accountVars>>

\* ------------------------------------------------- addServiceToBooking
\* the Service catalog: price and isActive of every service
Services == [spa |-> [price |-> 500, isActive |-> TRUE],
             old |-> [price |-> 300, isActive |-> FALSE]]

\* an additionalServices line copied from the catalog
NewService(sid, quantity) ==
    [serviceId |-> sid, price |-> Services[sid].price, quantity |-> quantity]

\* load the booking and the service; push the line and recompute on the loaded copy
AddService_Start(q, a, b, sid, quantity) ==
    /\ CanStart(q)
    /\ started' = started + 1
    /\ IF ~Exists(b)
         THEN Reject("addServiceToBooking", a, b, Null, 404, "Booking not found")
       ELSE IF AccessDenied(a, b)
         THEN Reject("addServiceToBooking", a, b, Null, 403, "Access denied")
       ELSE IF sid \notin DOMAIN Services \/ ~Services[sid].isActive
         THEN Reject("addServiceToBooking", a, b, Null, 404, "Service not found or not available")
       ELSE Proceed(q, [NewRequest("addServiceToBooking", a, b) EXCEPT
                          !.pc = "saveBooking", !.seen = bookings[b].status,
                          !.body = NewService(sid, quantity),
                          !.doc = calculateTotal(
                              [bookings[b] EXCEPT !.additionalServices =
                                  Append(@, NewService(sid, quantity))])])
    /\ UNCHANGED <<available, total, bookings, orderVars, packageVars, accountVars>>

\* save(): the pushed line is appended to the stored array, pricing is set
AddService_SaveBooking(q) ==
    /\ At(q, "addServiceToBooking", "saveBooking")
    /\ bookings' = [bookings EXCEPT ![reqs[q].bid] =
                      [@ EXCEPT !.additionalServices = Append(@, reqs[q].body),
                                !.pricing = reqs[q].doc.pricing]]
    /\ Finish(q, 200, Null)
    /\ UNCHANGED <<available, total, started, orderVars, packageVars, accountVars>>

\* -------------------------------------------------------- addFoodOrder
RECURSIVE SumItems(_)
\* items.reduce((sum, item) => sum + (item.price * item.quantity), 0)
SumItems(items) ==
    IF items = <<>> THEN 0
    ELSE SumItems(Tail(items)) + Head(items).price * Head(items).quantity

\* the food order built from the request body
NewFoodOrder(items) ==
    [items |-> items, status |-> "ordered", totalAmount |-> SumItems(items)]

AddFoodOrder_Start(q, a, b, items) ==
    /\ CanStart(q)
    /\ started' = started + 1
    /\ IF ~Exists(b)
         THEN Reject("addFoodOrder", a, b, Null, 404, "Booking not found")
       ELSE IF AccessDenied(a, b)
         THEN Reject("addFoodOrder", a, b, Null, 403, "Access denied")
       ELSE Proceed(q, [NewRequest("addFoodOrder", a, b) EXCEPT
                          !.pc = "saveBooking", !.seen = bookings[b].status,
                          !.body = NewFoodOrder(items),
                          !.doc = calculateTotal(
                              [bookings[b] EXCEPT !.foodOrders =
                                  Append(@, NewFoodOrder(items))])])
    /\ UNCHANGED <<available, total, bookings, orderVars, packageVars, accountVars>>

AddFoodOrder_SaveBooking(q) ==
    /\ At(q, "addFoodOrder", "saveBooking")
    /\ bookings' = [bookings EXCEPT ![reqs[q].bid] =
                      [@ EXCEPT !.foodOrders = Append(@, reqs[q].body),
                                !.pricing = reqs[q].doc.pricing]]
    /\ Finish(q, 200, Null)
    /\ UNCHANGED <<available, total, started, orderVars, packageVars, accountVars>>

\* ----------------------------------------------------------- addReview
\* booking.status !== 'checked-out'
ReviewRefused(status) == status # "checked-out"

AddReview_Start(q, a, b, rating) ==
    /\ CanStart(q)
    /\ authorize(RoleOf(a), {"user"})
    /\ started' = started + 1
    /\ IF ~Exists(b)
         THEN Reject("addReview", a, b, Null, 404, "Booking not found")
       ELSE IF bookings[b].user # a
         THEN Reject("addReview", a, b, Null, 403, "Access denied")
       ELSE IF ReviewRefused(bookings[b].status)
         THEN Reject("addReview", a, b, Null, 400, "Can only review completed stays")
       ELSE Proceed(q, [NewRequest("addReview", a, b) EXCEPT
                          !.pc = "saveBooking", !.seen = bookings[b].status,
                          !.body = [review |-> rating]])
    /\ UNCHANGED <<available, total, bookings, orderVars, packageVars, accountVars>>

\* schema validation of review.rating: min 1, max 5
ValidRating(rating) == rating >= 1 /\ rating <= 5

AddReview_SaveBooking(q) ==
    /\ At(q, "addReview", "saveBooking")
    /\ IF ValidRating(reqs[q].body.review)
         THEN /\ bookings' = [bookings EXCEPT ![reqs[q].bid] = SetPaths(@, reqs[q].body)]
              /\ Finish(q, 200, Null)
         ELSE /\ bookings' = bookings
              /\ Finish(q, 500, "Failed to add review")
    /\ UNCHANGED <<available, total, started, orderVars, packageVars, accountVars>>

\* ------------------------------------------------------ updateFoodOrder
\* the status enum of a food order
FoodStatuses == {"ordered", "preparing", "ready", "delivered", "cancelled"}

\* load the booking, find the food order, then let staff only set its status
UpdateFoodOrder_Start(q, a, b, o, status) ==
    /\ CanStart(q)
    /\ started' = started + 1
    /\ IF ~Exists(b)
         THEN Reject("updateFoodOrder", a, b, Null, 404, "Booking not found")
       ELSE IF o \notin 1..Len(bookings[b].foodOrders)
         THEN Reject("updateFoodOrder", a, b, Null, 404, "Food order not found")
       ELSE IF RoleOf(a) \notin {"staff", "manager", "admin"}
         THEN Reject("updateFoodOrder", a, b, Null, 403, "Staff access required")
       ELSE Proceed(q, [NewRequest("updateFoodOrder", a, b) EXCEPT
                          !.pc = "saveBooking", !.seen = bookings[b].status,
                          !.room = o, !.body = [status |-> status]])
    /\ UNCHANGED <<available, total, bookings, orderVars, packageVars, accountVars>>

\* booking.save(): the status of the order is written, if the enum holds it
UpdateFoodOrder_SaveBooking(q) ==
    /\ At(q, "updateFoodOrder", "saveBooking")
    /\ IF reqs[q].body.status \in FoodStatuses
         THEN /\ bookings' = [bookings EXCEPT ![reqs[q].bid].foodOrders[reqs[q].room] =
                                SetPaths(@, reqs[q].body)]
              /\ Finish(q, 200, Null)
         ELSE /\ bookings' = bookings
              /\ Finish(q, 500, "Failed to update food order")
    /\ UNCHANGED <<available, total, started, orderVars, packageVars, accountVars>>

\* ----------------------------------------------------- service requests
RequestTypes == {"housekeeping", "maintenance", "butler", "concierge", "complaint",
                 "emergency"}
RequestStatuses == {"open", "assigned", "in-progress", "resolved", "closed"}

\* the service request built from the request body, with the schema defaults;
\* a rating of 0 is no rating
NewServiceRequest(type) ==
    [type |-> type, priority |-> "medium", status |-> "open", assignedStaff |-> Null,
     resolution |-> Null, resolvedDate |-> Null, rating |-> 0]

\* load the booking, check access, push the request on the loaded copy
CreateServiceRequest_Start(q, a, b, type) ==
    /\ CanStart(q)
    /\ started' = started + 1
    /\ IF ~Exists(b)
         THEN Reject("createServiceRequest", a, b, Null, 404, "Booking not found")
       ELSE IF AccessDenied(a, b)
         THEN Reject("createServiceRequest", a, b, Null, 403, "Access denied")
       ELSE Proceed(q, [NewRequest("createServiceRequest", a, b) EXCEPT
                          !.pc = "saveBooking", !.seen = bookings[b].status,
                          !.body = NewServiceRequest(type)])
    /\ UNCHANGED <<available, total, bookings, orderVars, packageVars, accountVars>>

\* booking.save(): the request is appended, if the enum holds its type
CreateServiceRequest_SaveBooking(q) ==
    /\ At(q, "createServiceRequest", "saveBooking")
    /\ IF reqs[q].body.type \in RequestTypes
         THEN /\ bookings' = [bookings EXCEPT ![reqs[q].bid].serviceRequests =
                                Append(@, reqs[q].body)]
              /\ Finish(q, 200, Null)
         ELSE /\ bookings' = bookings
              /\ Finish(q, 500, "Failed to create service request")
    /\ UNCHANGED <<available, total, started, orderVars, packageVars, accountVars>>

\* variant of the rating test that lets a request in any status be rated
MayRate_Always(status) == TRUE

\* request.status === 'resolved'
MayRate(status) == status = "resolved"

\* the paths staff assign: assignedStaff, status and resolution, each if given
StaffAssigns(body) ==
    [k \in {f \in {"assignedStaff", "status", "resolution"} : body[f] # Null} |-> body[k]]
    @@ (IF body.resolution # Null THEN [resolvedDate |-> "t1"] ELSE <<>>)

\* the paths updateServiceRequest assigns on the loaded request: staff first,
\* then the rating of a 'user', tested on the status as the staff branch left it
ServiceRequestUpdate(role, request, body) ==
    LET staff  == IF role \in {"staff", "manager", "admin"} THEN StaffAssigns(body)
                  ELSE <<>>
        status == IF "status" \in DOMAIN staff THEN staff.status ELSE request.status
    IN  IF role = "user" /\ body.rating # 0 /\ MayRate(status)
          THEN staff @@ [rating |-> body.rating]
          ELSE staff

\* load the booking, find the request, assign what the role may assign
UpdateServiceRequest_Start(q, a, b, n, body) ==
    /\ CanStart(q)
    /\ started' = started + 1
    /\ IF ~Exists(b)
         THEN Reject("updateServiceRequest", a, b, Null, 404, "Booking not found")
       ELSE IF n \notin 1..Len(bookings[b].serviceRequests)
         THEN Reject("updateServiceRequest", a, b, Null, 404, "Service request not found")
       ELSE Proceed(q, [NewRequest("updateServiceRequest", a, b) EXCEPT
                          !.pc = "saveBooking",
                          !.seen = bookings[b].serviceRequests[n].status,
                          !.room = n,
                          !.body = ServiceRequestUpdate(RoleOf(a),
                                       bookings[b].serviceRequests[n], body)])
    /\ UNCHANGED <<available, total, bookings, orderVars, packageVars, accountVars>>

\* schema validation of the assigned paths: the status enum, rating 1 to 5
ValidServiceRequest(upd) ==
    /\ "status" \in DOMAIN upd => upd.status \in RequestStatuses
    /\ "rating" \in DOMAIN upd => ValidRating(upd.rating)

\* booking.save(): the assigned paths of the request are written
UpdateServiceRequest_SaveBooking(q) ==
    /\ At(q, "updateServiceRequest", "saveBooking")
    /\ IF ValidServiceRequest(reqs[q].body)
         THEN /\ bookings' = [bookings EXCEPT
                                ![reqs[q].bid].serviceRequests[reqs[q].room] =
                                    SetPaths(@, reqs[q].body)]
              /\ Finish(q, 200, Null)
         ELSE /\ bookings' = bookings
              /\ Finish(q, 500, "Failed to update service request")
    /\ UNCHANGED <<available, total, started, orderVars, packageVars, accountVars>>

\* ================================================== restaurant orders
\* amounts of the order routes are in hundredths of a rupee
Rupee == 100

\* Math.abs(calculatedTotal - totalAmount) > 0.01
Tolerance == 1

\* orderSchema.status enum, and validStatuses of the status route
OrderStatuses == {"pending", "confirmed", "preparing", "ready", "out_for_delivery",
                  "delivered", "cancelled"}
\* orderSchema.paymentStatus enum
OrderPaymentStatuses == {"pending", "processing", "completed", "failed", "refunded"}

\* the MenuItem catalog: the price of every item
MenuItems == [tea |-> 100 * Rupee]

\* the orders a request names: every stored order, and 0 for an id of no order
OrderTargets == 0..Len(orders)

\* the order lines built from the request's items and the catalog prices
RECURSIVE OrderItems(_)
OrderItems(items) ==
    IF items = <<>> THEN <<>>
    ELSE <<[menuItemId |-> Head(items).id,
            price      |-> MenuItems[Head(items).id],
            quantity   |-> Head(items).quantity,
            subtotal   |-> MenuItems[Head(items).id] * Head(items).quantity]>>
         \o OrderItems(Tail(items))

\* items.reduce((total, item) => total + item.subtotal, 0)
RECURSIVE SumSubtotals(_)
SumSubtotals(items) ==
    IF items = <<>> THEN 0 ELSE Head(items).subtotal + SumSubtotals(Tail(items))

\* variant of the hook that recomputes nothing
preSave_Nothing(order) == order

\* orderSchema.pre('save'): subtotals, totalAmount and finalAmount from the items
preSave(order) ==
    LET items == [i \in 1..Len(order.items) |->
                     [order.items[i] EXCEPT
                         !.subtotal = order.items[i].price * order.items[i].quantity]]
        totalAmount == SumSubtotals(items)
    IN  [order EXCEPT !.items = items,
                      !.totalAmount = totalAmount,
                      !.finalAmount = totalAmount + order.tax + order.deliveryFee]

\* Math.round(totalAmount * 0.1), a whole number of rupees
RoundedTax(totalAmount) == Rupee * ((totalAmount + 5 * Rupee) \div (10 * Rupee))

\* 50 INR for room service
DeliveryFee(deliveryType) == IF deliveryType = "room_service" THEN 50 * Rupee ELSE 0

\* variant of the total check that accepts every total
Mismatch_Never(calculatedTotal, totalAmount) == FALSE

\* the total check of the route
Mismatch(calculatedTotal, totalAmount) ==
    LET d == calculatedTotal - totalAmount IN
    (IF d < 0 THEN -d ELSE d) > Tolerance

\* new Order({...}): tax and finalAmount are derived from the client's totalAmount
NewOrder(a, items, totalAmount, deliveryType) ==
    [customerId |-> a,
     items |-> OrderItems(items),
     totalAmount |-> SumSubtotals(OrderItems(items)),
     tax |-> RoundedTax(totalAmount),
     deliveryFee |-> DeliveryFee(deliveryType),
     finalAmount |-> totalAmount + RoundedTax(totalAmount) + DeliveryFee(deliveryType),
     status |-> "pending", paymentStatus |-> "pending",
     paymentIntentId |-> 0, stripePaymentId |-> 0, transactionId |-> Null,
     assignedStaff |-> Null, staffNotes |-> Null, actualDeliveryTime |-> Null]

\* ---------------------------------------- POST /create-payment-intent
\* validate the input, price the items from the catalog, compare the totals
CreateIntent_Start(q, a, items, totalAmount, deliveryType) ==
    /\ CanStart(q)
    /\ started' = started + 1
    /\ IF items = <<>>
         THEN Reject("createPaymentIntent", a, 0, Null, 400, "Invalid items data")
       ELSE IF totalAmount <= 0
         THEN Reject("createPaymentIntent", a, 0, Null, 400, "Invalid total amount")
       ELSE IF \E i \in 1..Len(items) : items[i].id \notin DOMAIN MenuItems
         THEN Reject("createPaymentIntent", a, 0, Null, 400, "Menu item not found")
       ELSE IF Mismatch(SumSubtotals(OrderItems(items)), totalAmount)
         THEN Reject("createPaymentIntent", a, 0, Null, 400, "Total amount mismatch")
       ELSE Proceed(q, [NewRequest("createPaymentIntent", a, 0) EXCEPT
                          !.pc = "gateway",
                          !.body = [totalAmount |-> totalAmount],
                          !.doc = NewOrder(a, items, totalAmount, deliveryType)])
    /\ UNCHANGED <<bookingVars, orderVars, packageVars, accountVars>>

\* createPaymentIntent(finalAmount, ...): the gateway creates the intent or throws
CreateIntent_Gateway(q, ok) ==
    /\ At(q, "createPaymentIntent", "gateway")
    /\ IF ok
         THEN /\ intents' = intents + 1
              /\ Proceed(q, [reqs[q] EXCEPT !.pc = "saveOrder",
                                            !.doc.paymentIntentId = intents + 1])
         ELSE /\ intents' = intents
              /\ Finish(q, 500, "Failed to create payment intent")
    /\ UNCHANGED <<bookingVars, orders, started, packageVars, accountVars>>

\* order.save(): the insert; a store error ends the request
CreateIntent_SaveOrder(q, ok) ==
    /\ At(q, "createPaymentIntent", "saveOrder")
    /\ IF ok
         THEN /\ orders' = Append(orders, preSave(reqs[q].doc))
              /\ Finish(q, 200, Null)
         ELSE /\ orders' = orders
              /\ Finish(q, 500, "Failed to create payment intent")
    /\ UNCHANGED <<bookingVars, intents, started, packageVars, accountVars>>

\* Order.findOne({ orderId, customerId: userId })
OwnOrder(a, o) == o \in 1..Len(orders) /\ orders[o].customerId = a

\* save() of a loaded order: the assigned paths, then the pre-save hook
SaveOrder(o, upd) == [orders EXCEPT ![o] = preSave(SetPaths(@, upd))]

\* ----------------------------------------------- POST /confirm-payment
ConfirmPayment_Start(q, a, o, paymentIntentId) ==
    /\ CanStart(q)
    /\ started' = started + 1
    /\ IF paymentIntentId = 0 \/ o = 0
         THEN Reject("confirmPayment", a, o, Null, 400,
                     "Missing payment intent ID or order ID")
       ELSE IF ~OwnOrder(a, o)
         THEN Reject("confirmPayment", a, o, Null, 404, "Order not found or access denied")
       ELSE Proceed(q, [NewRequest("confirmPayment", a, o) EXCEPT
                          !.pc = "gateway", !.seen = orders[o].status,
                          !.room = paymentIntentId])
    /\ UNCHANGED <<bookingVars, orderVars, packageVars, accountVars>>

\* confirmPayment(paymentIntentId): the intent's status is 'succeeded', or it is
\* not, or the gateway call fails
ConfirmPayment_Gateway(q, paymentSucceeded) ==
    /\ At(q, "confirmPayment", "gateway")
    /\ Proceed(q, [reqs[q] EXCEPT !.pc = IF paymentSucceeded THEN "completePayment"
                                                              ELSE "saveFailed"])
    /\ UNCHANGED <<bookingVars, orderVars, started, packageVars, accountVars>>

\* variant of the failure branch that also cancels the order
FailedUpdate_AlsoCancels == [paymentStatus |-> "failed", status |-> "cancelled"]

\* the path assigned when the payment did not succeed
FailedUpdate == [paymentStatus |-> "failed"]

ConfirmPayment_SaveFailed(q) ==
    /\ At(q, "confirmPayment", "saveFailed")
    /\ orders' = SaveOrder(reqs[q].bid, FailedUpdate)
    /\ Finish(q, 400, "Payment verification failed")
    /\ UNCHANGED <<bookingVars, intents, started, packageVars, accountVars>>

\* variant of completePayment that leaves the lifecycle status alone
completePayment_KeepsStatus(stripePaymentId, transactionId) ==
    [paymentStatus |-> "completed", stripePaymentId |-> stripePaymentId,
     transactionId |-> transactionId]

\* orderSchema.methods.completePayment: the paths it assigns
completePayment(stripePaymentId, transactionId) ==
    [paymentStatus |-> "completed", stripePaymentId |-> stripePaymentId,
     transactionId |-> transactionId, status |-> "confirmed"]

ConfirmPayment_CompletePayment(q) ==
    /\ At(q, "confirmPayment", "completePayment")
    /\ orders' = SaveOrder(reqs[q].bid, completePayment(reqs[q].room, "txn"))
    /\ Finish(q, 200, Null)
    /\ UNCHANGED <<bookingVars, intents, started, packageVars, accountVars>>

\* ---------------------------------------------- PUT /:orderId/status
\* variant of the role list that admits customers
StatusRoles_WithUser == {"admin", "staff", "manager", "user"}

\* ['admin', 'staff', 'manager'].includes(req.user.role)
StatusRoles == {"admin", "staff", "manager"}

\* the statuses a staff request sends: a step forward, a step back, the two last
\* ones, and one that is no status
StatusInputs == {"pending", "preparing", "delivered", "cancelled", "bogus"}

UpdateStatus_Start(q, a, o, status, staffNotes) ==
    /\ CanStart(q)
    /\ started' = started + 1
    /\ IF RoleOf(a) \notin StatusRoles
         THEN Reject("updateStatus", a, o, Null, 403, "Access denied")
       ELSE IF status \notin OrderStatuses
         THEN Reject("updateStatus", a, o, Null, 400, "Invalid status")
       ELSE IF o \notin 1..Len(orders)
         THEN Reject("updateStatus", a, o, Null, 404, "Order not found")
       ELSE Proceed(q, [NewRequest("updateStatus", a, o) EXCEPT
                          !.pc = "saveStatus", !.seen = orders[o].status,
                          !.body = [status |-> status, staffNotes |-> staffNotes]])
    /\ UNCHANGED <<bookingVars, orderVars, packageVars, accountVars>>

\* orderSchema.methods.updateStatus: the paths it assigns
updateStatus(newStatus) ==
    IF newStatus = "delivered"
      THEN [status |-> newStatus, actualDeliveryTime |-> "now"]
      ELSE [status |-> newStatus]

UpdateStatus_SaveStatus(q) ==
    /\ At(q, "updateStatus", "saveStatus")
    /\ orders' = SaveOrder(reqs[q].bid, updateStatus(reqs[q].body.status))
    /\ Proceed(q, [reqs[q] EXCEPT !.pc = "saveStaff"])
    /\ UNCHANGED <<bookingVars, intents, started, packageVars, accountVars>>

\* if (staffNotes) order.staffNotes = staffNotes; order.assignedStaff = req.user.id
StaffUpdate(a, staffNotes) ==
    IF staffNotes # Null
      THEN [assignedStaff |-> a, staffNotes |-> staffNotes]
      ELSE [assignedStaff |-> a]

UpdateStatus_SaveStaff(q) ==
    /\ At(q, "updateStatus", "saveStaff")
    /\ orders' = SaveOrder(reqs[q].bid, StaffUpdate(reqs[q].user, reqs[q].body.staffNotes))
    /\ Finish(q, 200, Null)
    /\ UNCHANGED <<bookingVars, intents, started, packageVars, accountVars>>

\* --------------------------------------------------- DELETE /:orderId
\* variant of the status test that refuses a cancelled order only
OrderCancellable_NotCancelled(status) == status # "cancelled"

\* ['pending', 'confirmed'].includes(order.status)
OrderCancellable(status) == status \in {"pending", "confirmed"}

CancelOrder_Start(q, a, o) ==
    /\ CanStart(q)
    /\ started' = started + 1
    /\ IF ~OwnOrder(a, o)
         THEN Reject("cancelOrder", a, o, Null, 404, "Order not found")
       ELSE IF ~OrderCancellable(orders[o].status)
         THEN Reject("cancelOrder", a, o, Null, 400, "Cannot cancel order in current status")
       ELSE Proceed(q, [NewRequest("cancelOrder", a, o) EXCEPT
                          !.pc = "saveOrder", !.seen = orders[o].status])
    /\ UNCHANGED <<bookingVars, orderVars, packageVars, accountVars>>

\* the paths the cancel route assigns
OrderCancelUpdate == [status |-> "cancelled", paymentStatus |-> "refunded"]

CancelOrder_SaveOrder(q) ==
    /\ At(q, "cancelOrder", "saveOrder")
    /\ orders' = SaveOrder(reqs[q].bid, OrderCancelUpdate)
    /\ Finish(q, 200, Null)
    /\ UNCHANGED <<bookingVars, intents, started, packageVars, accountVars>>

\* --------------------------------------------------------------- login
MaxAttempts == 5
LockHours   == 2

\* a user nobody has failed to log in as
NewUser == [isActive |-> TRUE, loginAttempts |-> 0, isLocked |-> FALSE,
            lockUntil |-> Unset]

\* the user the login requests name, and the passwords they carry
LoginUser == "u1"
Passwords == {"right", "wrong"}

\* user.comparePassword(password)
comparePassword(password) == password = "right"

\* a login request is taken by the first idle slot
CanLogin(q) ==
    /\ reqs[q].pc = "idle"
    /\ \A p \in Slots : p < q => reqs[p].pc # "idle"
    /\ started < MaxLogins

\* login: load the user, refuse a deactivated or a locked one, compare the password
Login_Start(q, password) ==
    /\ CanLogin(q)
    /\ started' = started + 1
    /\ IF ~account.isActive
         THEN /\ reqs' = reqs
              /\ response' = Response("login", LoginUser, 0, Null, 401, "Account is deactivated")
                              @@ [password |-> password]
       ELSE IF account.isLocked
         THEN /\ reqs' = reqs
              /\ response' = Response("login", LoginUser, 0, Null, 401,
                                      "Account is temporarily locked")
                              @@ [password |-> password]
       ELSE Proceed(q, [NewRequest("login", LoginUser, 0) EXCEPT
                          !.pc = IF comparePassword(password) THEN "resetLoginAttempts"
                                 ELSE "incLoginAttempts",
                          !.body = [password |-> password],
                          !.doc = account])
    /\ UNCHANGED <<bookingVars, orderVars, packageVars, accountVars>>

\* this.loginAttempts + 1 >= 5 && !this.isLocked
Locks(user) == user.loginAttempts + 1 >= MaxAttempts /\ ~user.isLocked

\* userSchema.methods.incLoginAttempts on the user loaded at the start: the
\* update it sends, $inc applied to the stored count
incLoginAttempts(user, stored) ==
    IF user.lockUntil # Unset /\ user.lockUntil[1] < now
      THEN [stored EXCEPT !.lockUntil = Unset, !.loginAttempts = 1, !.isLocked = FALSE]
    ELSE IF Locks(user)
      THEN [stored EXCEPT !.loginAttempts = @ + 1, !.isLocked = TRUE,
                          !.lockUntil = <<now + LockHours>>]
    ELSE [stored EXCEPT !.loginAttempts = @ + 1]

\* the password did not match: count the attempt, answer 401
Login_IncLoginAttempts(q) ==
    /\ At(q, "login", "incLoginAttempts")
    /\ account' = incLoginAttempts(reqs[q].doc, account)
    /\ Finish(q, 401, "Invalid credentials")
    /\ UNCHANGED <<bookingVars, orderVars, packageVars, now, started>>

\* userSchema.methods.resetLoginAttempts
resetLoginAttempts(stored) ==
    [stored EXCEPT !.loginAttempts = 0, !.lockUntil = Unset, !.isLocked = FALSE]

\* the password matched: reset the count, answer with the token
Login_ResetLoginAttempts(q) ==
    /\ At(q, "login", "resetLoginAttempts")
    /\ account' = resetLoginAttempts(account)
    /\ Finish(q, 200, Null)
    /\ UNCHANGED <<bookingVars, orderVars, packageVars, now, started>>

\* an hour passes
Tick ==
    /\ now < MaxHours
    /\ now' = now + 1
    /\ response' = NoResponse
    /\ UNCHANGED <<bookingVars, orderVars, packageVars, account, reqs, started>>

\* ------------------------------------------------------------- system
Init ==
    /\ available \in [Rooms -> 0..MaxAvail]
    /\ total = available
    /\ bookings = <<>>
    /\ reqs = [q \in Slots |-> Idle]
    /\ response = NoResponse
    /\ started = 0
    /\ orders = <<>>
    /\ intents = 0
    /\ packages = [p \in PackageIds |-> NoDoc]
    /\ account = NewUser
    /\ now = 0

Next ==
    \/ \E q \in Slots, a \in Guests, r \in Rooms, ci \in {-1, 1}, d \in {0, 3} :
          CreateBooking_Start(q, a, r, ci, ci + d, Null)
    \/ \E q \in Slots : CreateBooking_Number(q)
    \/ \E q \in Slots, ok \in BOOLEAN : CreateBooking_SaveBooking(q, ok)
    \/ \E q \in Slots, ok \in BOOLEAN : CreateBooking_SaveRoom(q, ok)
    \/ \E q \in Slots, a \in Actors, b \in Targets : CancelBooking_Start(q, a, b)
    \/ \E q \in Slots : CancelBooking_SaveBooking(q)
    \/ \E q \in Slots : Release_FindRoom(q)
    \/ \E q \in Slots : Release_SaveRoom(q)
    \/ \E q \in Slots, a \in Actors, b \in Targets : CheckInBooking_Start(q, a, b)
    \/ \E q \in Slots : CheckInBooking_SaveBooking(q)
    \/ \E q \in Slots, a \in Actors, b \in Targets : CheckOutBooking_Start(q, a, b)
    \/ \E q \in Slots : CheckOutBooking_SaveBooking(q)
    \/ \E q \in Slots, a \in Actors, b \in Targets, body \in UpdateBodies :
          UpdateBooking_Start(q, a, b, body)
    \/ \E q \in Slots : UpdateBooking_SaveBooking(q)
    \/ \E q \in Slots, a \in Actors, b \in Targets, sid \in {"spa", "old"} :
          AddService_Start(q, a, b, sid, 1)
    \/ \E q \in Slots : AddService_SaveBooking(q)
    \/ \E q \in Slots, a \in Actors, b \in Targets :
          AddFoodOrder_Start(q, a, b, <<[price |-> 100, quantity |-> 2]>>)
    \/ \E q \in Slots : AddFoodOrder_SaveBooking(q)
    \/ \E q \in Slots, a \in Actors, b \in Targets, rating \in {0, 5} :
          AddReview_Start(q, a, b, rating)
    \/ \E q \in Slots : AddReview_SaveBooking(q)

Spec == Init /\ [][Next]_vars

\* the order routes alone, no room in the store
OrderInit == Init /\ available = [r \in Rooms |-> 0]

\* the items and totals a client sends: one tea twice is 200 rupees
TwoTeas == <<[id |-> "tea", quantity |-> 2]>>
ItemInputs == {<<>>, TwoTeas, <<[id |-> "gone", quantity |-> 1]>>}
TotalInputs == {0, 200 * Rupee, 200 * Rupee + 1, 200 * Rupee + 2}

OrderNext ==
    \/ \E q \in Slots, a \in Guests, items \in ItemInputs, totalAmount \in TotalInputs,
          deliveryType \in {"room_service", "pickup"} :
          CreateIntent_Start(q, a, items, totalAmount, deliveryType)
    \/ \E q \in Slots, ok \in BOOLEAN : CreateIntent_Gateway(q, ok)
    \/ \E q \in Slots, ok \in BOOLEAN : CreateIntent_SaveOrder(q, ok)
    \/ \E q \in Slots, a \in Users, o \in OrderTargets, paymentIntentId \in {0, 1} :
          ConfirmPayment_Start(q, a, o, paymentIntentId)
    \/ \E q \in Slots, paymentSucceeded \in BOOLEAN :
          ConfirmPayment_Gateway(q, paymentSucceeded)
    \/ \E q \in Slots : ConfirmPayment_SaveFailed(q)
    \/ \E q \in Slots : ConfirmPayment_CompletePayment(q)
    \/ \E q \in Slots, a \in Guests \cup Staff, o \in OrderTargets, status \in StatusInputs,
          staffNotes \in {Null, "note"} :
          UpdateStatus_Start(q, a, o, status, staffNotes)
    \/ \E q \in Slots : UpdateStatus_SaveStatus(q)
    \/ \E q \in Slots : UpdateStatus_SaveStaff(q)
    \/ \E q \in Slots, a \in Users, o \in OrderTargets : CancelOrder_Start(q, a, o)
    \/ \E q \in Slots : CancelOrder_SaveOrder(q)

OrderSpec == OrderInit /\ [][OrderNext]_vars

\* the package routes and the bookings made with a package
PackageInputs ==
    [price : {1000}, discountPercentage : {10}, isActive : BOOLEAN,
     seasons : {<<>>},
     availability : [startDate : {Unset, <<2>>}, endDate : {Unset, <<5>>},
                     blackoutDates : {<<>>, <<4>>}]]

PackageInit ==
    /\ available = [r \in Rooms |-> MaxAvail]
    /\ total = available
    /\ bookings = <<>>
    /\ reqs = [q \in Slots |-> Idle]
    /\ response = NoResponse
    /\ started = 0
    /\ orders = <<>>
    /\ intents = 0
    /\ packages \in [PackageIds -> PackageInputs]
    /\ account = NewUser
    /\ now = 0

\* the dates a request asks about
DateInputs == 1..6
PackageBodies ==
    {[price |-> 1500, discountPercentage |-> 0],
     [seasons |-> <<[startDate |-> 1, endDate |-> 3, priceModifier |-> 2]>>,
      isActive |-> TRUE]}

PackageNext ==
    \/ \E q \in Slots, p \in PackageIds, date \in DateInputs :
          CheckPackageAvailability(q, p, date)
    \/ \E q \in Slots, a \in Admins, p \in PackageIds, body \in PackageBodies :
          UpdatePackage(q, a, p, body)
    \/ \E q \in Slots, a \in Admins, p \in PackageIds : DeletePackage(q, a, p)
    \/ \E q \in Slots, a \in Guests, r \in Rooms, ci \in {3, 5} :
          CreateBooking_Start(q, a, r, ci, ci + 3, "p1")
    \/ \E q \in Slots : CreateBooking_FindPackage(q)
    \/ \E q \in Slots : CreateBooking_Number(q)
    \/ \E q \in Slots : CreateBooking_SaveBooking(q, TRUE)
    \/ \E q \in Slots : CreateBooking_SaveRoom(q, TRUE)
    \/ \E q \in Slots, a \in Guests, b \in Targets : AddService_Start(q, a, b, "spa", 1)
    \/ \E q \in Slots : AddService_SaveBooking(q)
    \/ \E q \in Slots, a \in Guests, b \in Targets :
          AddFoodOrder_Start(q, a, b, <<[price |-> 100, quantity |-> 2]>>)
    \/ \E q \in Slots : AddFoodOrder_SaveBooking(q)

PackageSpec == PackageInit /\ [][PackageNext]_vars

\* the login route and the clock
LoginInit == Init /\ available = [r \in Rooms |-> 0]

LoginNext ==
    \/ \E q \in Slots, password \in Passwords : Login_Start(q, password)
    \/ \E q \in Slots : Login_IncLoginAttempts(q)
    \/ \E q \in Slots : Login_ResetLoginAttempts(q)
    \/ Tick

LoginSpec == LoginInit /\ [][LoginNext]_vars

\* the routes of one stay: a confirmed booking of u1 is in the store
StayInit ==
    /\ available = [r \in Rooms |-> 0]
    /\ total = [r \in Rooms |-> 1]
    /\ bookings = <<[NewBooking("u1", "r1", 1, 4, RoomPrice) EXCEPT !.bookingNumber = 1]>>
    /\ reqs = [q \in Slots |-> Idle]
    /\ response = NoResponse
    /\ started = 0
    /\ orders = <<>>
    /\ intents = 0
    /\ packages = [p \in PackageIds |-> NoDoc]
    /\ account = NewUser
    /\ now = 0

\* request bodies of PUT /bookings/:id and of PUT .../service-requests/:requestId
StayBodies ==
    {[status |-> "checked-out"], [status |-> "confirmed"],
     [specialRequests |-> "late", bookingNumber |-> 7]}
ServiceRequestBodies ==
    {[assignedStaff |-> Null, status |-> "resolved", resolution |-> Null, rating |-> 0],
     [assignedStaff |-> "s1", status |-> "closed", resolution |-> "done", rating |-> 4]}

StayNext ==
    \/ \E q \in Slots, a \in Actors, b \in Targets, body \in StayBodies :
          UpdateBooking_Start(q, a, b, body)
    \/ \E q \in Slots : UpdateBooking_SaveBooking(q)
    \/ \E q \in Slots, a \in Actors, b \in Targets : CancelBooking_Start(q, a, b)
    \/ \E q \in Slots : CancelBooking_SaveBooking(q)
    \/ \E q \in Slots : Release_FindRoom(q)
    \/ \E q \in Slots : Release_SaveRoom(q)
    \/ \E q \in Slots, a \in Actors, b \in Targets : AddService_Start(q, a, b, "spa", 1)
    \/ \E q \in Slots : AddService_SaveBooking(q)
    \/ \E q \in Slots, a \in Actors, b \in Targets :
          AddFoodOrder_Start(q, a, b, <<[price |-> 100, quantity |-> 2]>>)
    \/ \E q \in Slots : AddFoodOrder_SaveBooking(q)
    \/ \E q \in Slots, a \in Actors, b \in Targets, o \in {1}, status \in {"ready"} :
          UpdateFoodOrder_Start(q, a, b, o, status)
    \/ \E q \in Slots : UpdateFoodOrder_SaveBooking(q)
    \/ \E q \in Slots, a \in Actors, b \in Targets :
          CreateServiceRequest_Start(q, a, b, "butler")
    \/ \E q \in Slots : CreateServiceRequest_SaveBooking(q)
    \/ \E q \in Slots, a \in Actors, b \in Targets, n \in {1},
          body \in ServiceRequestBodies :
          UpdateServiceRequest_Start(q, a, b, n, body)
    \/ \E q \in Slots : UpdateServiceRequest_SaveBooking(q)
    \/ \E q \in Slots, a \in Users, b \in Targets, rating \in {5} :
          AddReview_Start(q, a, b, rating)
    \/ \E q \in Slots : AddReview_SaveBooking(q)

StaySpec == StayInit /\ [][StayNext]_vars

\* ========================================================== properties
\* the stored bookings of room r
BookingsOf(r) == {b \in 1..Len(bookings) : bookings[b].room = r}

\* the statuses out of which the lifecycle has no operation
Terminal == {"cancelled", "no-show", "checked-out"}

\* this step takes a createBooking request for room r
StartsCreate(r) ==
    /\ started' = started + 1
    /\ \/ response'.op = "createBooking" /\ response'.rid = r
       \/ \E q \in Slots : /\ reqs[q].pc = "idle"
                           /\ reqs'[q].op = "createBooking"
                           /\ reqs'[q].rid = r

\* this step takes a request of handler `name`, sent by a, for booking b
StartsRequest(name, a, b) ==
    /\ started' = started + 1
    /\ \/ response'.op = name /\ response'.user = a /\ response'.bid = b
       \/ \E q \in Slots : /\ reqs[q].pc = "idle"
                           /\ reqs'[q].op = name
                           /\ reqs'[q].user = a
                           /\ reqs'[q].bid = b

\* this step answers a request of handler `name` for booking b with `code`
Answers(name, b, code) ==
    response'.op = name /\ response'.bid = b /\ response'.res = code

\* the 400 messages of createBooking's date validation
DateErrors == {"Check-in date cannot be in the past",
               "Check-out date must be after check-in date"}

\* ------------------------------------------------------------------ C1
\* C1: of the creation requests that race for a room whose counter is 1 (two
\* requests started, both createBooking), at most one persists a booking of
\* that room; the other is refused.
C1_OneCreateSucceeds ==
    \A r \in Rooms :
        (total[r] = 1 /\ started <= 2) => Cardinality(BookingsOf(r)) <= 1

\* ------------------------------------------------------------------ C2
\* C2: in every reachable state, whatever the interleaving of creations,
\* cancellations and check-outs, every room's available counter is >= 0.
C2_AvailableNeverNegative == \A r \in Rooms : available[r] >= 0

\* two creations raced for the last unit of a room and both persisted a
\* booking; the counter stands at 0
C2_Witness ==
    \E r \in Rooms : /\ total[r] = 1
                     /\ available[r] = 0
                     /\ Cardinality(BookingsOf(r)) = 2
                     /\ response.op = "createBooking" /\ response.res = 201

C5_CreateIsAtomic ==
    [][\A q \in Slots :
          (reqs[q].op = "createBooking" /\ reqs'[q] = Idle) =>
              ((reqs[q].bid # 0) <=>
                  (available'[reqs[q].rid] = available[reqs[q].rid] - 1))]_vars

\* ------------------------------------------------------------------ C6
\* C6: a check-in request by staff for a booking whose stored status is not
\* 'confirmed' is answered 400 and changes nothing; a check-in is answered 200
\* only by a request that loaded the booking as 'confirmed', and the step that
\* answers it stores status 'checked-in' and an actualCheckIn time.
C6_CheckIn ==
    [][\A b \in 1..Len(bookings) :
          /\ \A a \in Staff :
                (StartsRequest("checkInBooking", a, b)
                    /\ bookings[b].status # "confirmed") =>
                    /\ response' = Response("checkInBooking", a, b, Null, 400,
                                            "Booking must be confirmed to check in")
                    /\ reqs' = reqs
                    /\ bookings' = bookings
                    /\ available' = available
          /\ Answers("checkInBooking", b, 200) =>
                /\ \E q \in Slots : /\ At(q, "checkInBooking", "saveBooking")
                                    /\ reqs[q].bid = b
                                    /\ reqs[q].seen = "confirmed"
                                    /\ reqs'[q] = Idle
                /\ bookings'[b].status = "checked-in"
                /\ bookings'[b].actualCheckIn # Null
                /\ bookings' = [bookings EXCEPT ![b].status = "checked-in",
                                                ![b].actualCheckIn = bookings'[b].actualCheckIn]
                /\ available' = available]_vars

\* a confirmed booking has just been checked in
C6_Witness ==
    /\ response.op = "checkInBooking"
    /\ response.res = 200
    /\ bookings[response.bid].status = "checked-in"
    /\ bookings[response.bid].actualCheckIn # Null

C9_CancelRefunds ==
    (response.op = "cancelBooking" /\ response.res = 200) =>
        bookings[response.bid].payment = "refunded"

\* ----------------------------------------------------------------- C10
\* C10: once a booking's status is 'cancelled', 'no-show' or 'checked-out', no
\* step of any request, a staff update included, changes it.
C10_TerminalStays ==
    [][\A b \in 1..Len(bookings) :
          bookings[b].status \in Terminal =>
              bookings'[b].status = bookings[b].status]_vars

\* ----------------------------------------------------------------- C11
\* roomRate x numberOfNights + packagePrice + services + food orders of a booking
Subtotal(b) ==
    b.pricing.roomRate * b.numberOfNights + b.pricing.packagePrice
        + SumServices(b.additionalServices) + SumFood(b.foodOrders)

\* totalAmount = subtotal + 18% of subtotal - discountAmount, in hundredths
TotalIsPriced(b) ==
    100 * b.pricing.totalAmount =
        100 * Subtotal(b) + 18 * Subtotal(b) - 100 * b.pricing.discountAmount

C12_TotalsNeverStale ==
    \A b \in 1..Len(bookings) :
        bookings[b].pricing = calculateTotal(bookings[b]).pricing

\* ----------------------------------------------------------------- C13
\* sum over the order lines of price x quantity
RECURSIVE SumPriceQuantity(_)
SumPriceQuantity(items) ==
    IF items = <<>> THEN 0
    ELSE Head(items).price * Head(items).quantity + SumPriceQuantity(Tail(items))

\* C13: every stored order has finalAmount = totalAmount + tax + deliveryFee,
\* totalAmount = sum of price x quantity over its items, and every item's
\* subtotal = price x quantity, after any sequence of order requests.
C13_OrderAmounts ==
    \A o \in 1..Len(orders) :
        /\ orders[o].finalAmount =
               orders[o].totalAmount + orders[o].tax + orders[o].deliveryFee
        /\ orders[o].totalAmount = SumPriceQuantity(orders[o].items)
        /\ \A i \in 1..Len(orders[o].items) :
               orders[o].items[i].subtotal =
                   orders[o].items[i].price * orders[o].items[i].quantity

\* a room-service order of two teas (200 + 20 + 50 = 270), paid and then
\* handled by staff
C13_Witness ==
    \E o \in 1..Len(orders) :
        /\ orders[o].totalAmount = 200 * Rupee
        /\ orders[o].tax = 20 * Rupee
        /\ orders[o].deliveryFee = 50 * Rupee
        /\ orders[o].finalAmount = 270 * Rupee
        /\ orders[o].paymentStatus = "completed"
        /\ orders[o].assignedStaff # Null

\* ----------------------------------------------------------------- C14
\* the client's total of a request is within 0.01 of the catalog total
WithinTolerance(request) ==
    /\ request.body.totalAmount - request.doc.totalAmount <= Tolerance
    /\ request.doc.totalAmount - request.body.totalAmount <= Tolerance

\* C14: a create-payment-intent request is taken past its validation only if
\* its client total is within 0.01 of the catalog total, otherwise it is
\* answered 400; a 400 answer changes nothing; an intent is created and an
\* order is stored only by a request that passed, and the stored totalAmount is
\* the catalog total.
C14_MismatchRefused ==
    [][/\ \A q \in Slots :
             /\ (reqs[q].pc = "idle" /\ reqs'[q].op = "createPaymentIntent") =>
                    WithinTolerance(reqs'[q])
             /\ (At(q, "createPaymentIntent", "saveOrder") /\ Len(orders') > Len(orders)) =>
                    orders'[Len(orders')].totalAmount =
                        SumPriceQuantity(orders'[Len(orders')].items)
       /\ (started' = started + 1 /\ response'.op = "createPaymentIntent") =>
             /\ response'.res = 400
             /\ orders' = orders
             /\ intents' = intents
             /\ reqs' = reqs
       /\ intents' # intents =>
             \E q \in Slots : At(q, "createPaymentIntent", "gateway")
                                 /\ WithinTolerance(reqs[q])
       /\ Len(orders') # Len(orders) =>
             \E q \in Slots : At(q, "createPaymentIntent", "saveOrder")
                                 /\ WithinTolerance(reqs[q])]_vars

\* a request with a wrong total has just been refused, after an order with the
\* right total went through
C14_Witness ==
    /\ response.op = "createPaymentIntent"
    /\ response.res = 400
    /\ response.err = "Total amount mismatch"
    /\ Len(orders) = 1
    /\ intents = 1

\* ----------------------------------------------------------------- C15
\* the place of a status on pending -> ... -> delivered
StatusRank(status) ==
    CASE status = "pending"          -> 1
      [] status = "confirmed"        -> 2
      [] status = "preparing"        -> 3
      [] status = "ready"            -> 4
      [] status = "out_for_delivery" -> 5
      [] status = "delivered"        -> 6
      [] OTHER                       -> 7

\* C15: no step changes the status of a 'delivered' or 'cancelled' order, and
\* every change of status is a move forward or a move to 'cancelled'.
C15_StatusMovesForward ==
    [][\A o \in 1..Len(orders) :
          /\ orders[o].status \in {"delivered", "cancelled"} =>
                orders'[o].status = orders[o].status
          /\ orders'[o].status # orders[o].status =>
                \/ orders'[o].status = "cancelled"
                \/ StatusRank(orders'[o].status) > StatusRank(orders[o].status)]_vars

\* ----------------------------------------------------------------- C16
\* C16: a cancel request by the owner of an order whose stored status is not
\* 'pending' or 'confirmed' is answered 400, and a cancel request for an order
\* of someone else 404, both without any change; a cancel is answered 200 only
\* by a request of the owner that loaded the order as 'pending' or
\* 'confirmed', and the step that answers it stores status 'cancelled'.
C16_CancelOrder ==
    [][\A o \in 1..Len(orders) :
          /\ \A a \in Actors :
                /\ (StartsRequest("cancelOrder", a, o)
                       /\ orders[o].customerId = a
                       /\ orders[o].status \notin {"pending", "confirmed"}) =>
                       /\ response' = Response("cancelOrder", a, o, Null, 400,
                                               "Cannot cancel order in current status")
                       /\ reqs' = reqs
                       /\ orders' = orders
                /\ (StartsRequest("cancelOrder", a, o) /\ orders[o].customerId # a) =>
                       /\ response' = Response("cancelOrder", a, o, Null, 404,
                                               "Order not found")
                       /\ reqs' = reqs
                       /\ orders' = orders
          /\ Answers("cancelOrder", o, 200) =>
                /\ \E q \in Slots : /\ At(q, "cancelOrder", "saveOrder")
                                    /\ reqs[q].bid = o
                                    /\ reqs[q].user = orders[o].customerId
                                    /\ reqs[q].seen \in {"pending", "confirmed"}
                /\ orders'[o].status = "cancelled"]_vars

\* a confirmed order has just been cancelled by its owner
C16_Witness ==
    /\ response.op = "cancelOrder"
    /\ response.res = 200
    /\ response.user = orders[response.bid].customerId
    /\ orders[response.bid].status = "cancelled"
    /\ orders[response.bid].transactionId # Null

\* ----------------------------------------------------------------- C17
\* C17: the step of a confirm-payment request that follows the gateway's
\* success stores paymentStatus 'completed', status 'confirmed' whatever the
\* stored status was, and a transaction id, and answers 200.
C17_PaymentCompleted ==
    [][\A q \in Slots :
          (At(q, "confirmPayment", "completePayment") /\ reqs'[q] # reqs[q]) =>
              /\ orders'[reqs[q].bid].paymentStatus = "completed"
              /\ orders'[reqs[q].bid].status = "confirmed"
              /\ orders'[reqs[q].bid].transactionId # Null
              /\ Answers("confirmPayment", reqs[q].bid, 200)]_vars

\* an order that had been delivered is 'confirmed' after its payment completed
C17_Witness ==
    /\ response.op = "confirmPayment"
    /\ response.res = 200
    /\ orders[response.bid].actualDeliveryTime # Null
    /\ orders[response.bid].status = "confirmed"
    /\ orders[response.bid].paymentStatus = "completed"
    /\ orders[response.bid].transactionId # Null

\* ----------------------------------------------------------------- C18
\* C18: the step of a confirm-payment request that follows the gateway's
\* failure stores paymentStatus 'failed' and changes nothing else of the
\* order (status, transactionId and items included), and answers 400.
C18_PaymentFailed ==
    [][\A q \in Slots :
          (At(q, "confirmPayment", "saveFailed") /\ reqs'[q] # reqs[q]) =>
              /\ orders' = [orders EXCEPT ![reqs[q].bid].paymentStatus = "failed"]
              /\ orders'[reqs[q].bid].status = orders[reqs[q].bid].status
              /\ orders'[reqs[q].bid].transactionId = orders[reqs[q].bid].transactionId
              /\ orders'[reqs[q].bid].items = orders[reqs[q].bid].items
              /\ Answers("confirmPayment", reqs[q].bid, 400)]_vars

\* the payment of an order that staff had moved to 'preparing' has just failed
C18_Witness ==
    /\ response.op = "confirmPayment"
    /\ response.res = 400
    /\ response.err = "Payment verification failed"
    /\ orders[response.bid].paymentStatus = "failed"
    /\ orders[response.bid].status = "preparing"

\* ----------------------------------------------------------------- C19
\* C19: no step changes a paymentStatus that is 'completed' or 'failed', and a
\* paymentStatus becomes 'completed' or 'failed' only from 'processing'.
C19_PaymentStatusPath ==
    [][\A o \in 1..Len(orders) :
          /\ orders[o].paymentStatus \in {"completed", "failed"} =>
                orders'[o].paymentStatus = orders[o].paymentStatus
          /\ (orders'[o].paymentStatus \in {"completed", "failed"}
                 /\ orders'[o].paymentStatus # orders[o].paymentStatus) =>
                orders[o].paymentStatus = "processing"]_vars

\* ----------------------------------------------------------------- C20
\* C20: a status-update request of a caller whose role is not staff, admin or
\* manager is answered 403, one with a status outside the seven is answered
\* 400, both without any change; a status-update request is taken, and changes
\* an order, only with such a role and such a status.
C20_StatusUpdateGuarded ==
    [][/\ \A a \in Actors, o \in OrderTargets :
             (StartsRequest("updateStatus", a, o)
                 /\ RoleOf(a) \notin {"staff", "admin", "manager"}) =>
                 /\ response' = Response("updateStatus", a, o, Null, 403, "Access denied")
                 /\ reqs' = reqs
                 /\ orders' = orders
       /\ (response'.op = "updateStatus" /\ response'.res \in {400, 403}) =>
             (orders' = orders /\ reqs' = reqs)
       /\ \A q \in Slots :
             (reqs'[q].op = "updateStatus" \/ reqs[q].op = "updateStatus") =>
                 LET request == IF reqs[q].op = "updateStatus" THEN reqs[q] ELSE reqs'[q]
                 IN  /\ RoleOf(request.user) \in {"staff", "admin", "manager"}
                     /\ request.body.status \in
                            {"pending", "confirmed", "preparing", "ready",
                             "out_for_delivery", "delivered", "cancelled"}]_vars

\* a customer's status update of an order that staff had handled has just
\* been refused
C20_Witness ==
    /\ response.op = "updateStatus"
    /\ response.res = 403
    /\ response.bid \in 1..Len(orders)
    /\ RoleOf(response.user) = "user"
    /\ orders[response.bid].assignedStaff # Null

\* C21: booking numbers are unique and fixed: after every step no two stored
\* bookings share a booking number, and every booking that was stored before the
\* step still carries the number it had, whatever requests run at the same time.
C21_NumbersUniqueAndFixed ==
    [][/\ \A b \in 1..Len(bookings) :
             /\ b <= Len(bookings')
             /\ bookings'[b].bookingNumber = bookings[b].bookingNumber
       /\ \A i, j \in 1..Len(bookings') :
             i # j => bookings'[i].bookingNumber # bookings'[j].bookingNumber]_vars

\* two creations ran together and drew the same number: one is stored, the other
\* is about to insert a booking with the number of the stored one
C21_Witness ==
    \E q \in Slots : /\ At(q, "createBooking", "saveBooking")
                     /\ DuplicateNumber(reqs[q].doc.bookingNumber)

\* C22: an update request by the guest who owns the booking, for a booking whose
\* stored status is not 'confirmed', is answered 400 and changes nothing; an
\* update by a guest is answered 200 only by a request that loaded the booking
\* as 'confirmed', and the step that answers it changes nothing but the
\* booking's specialRequests, whatever the body held; a guest's update that is
\* answered otherwise changes nothing.
C22_GuestUpdate ==
    [][\A b \in 1..Len(bookings), a \in Users :
          /\ (StartsRequest("updateBooking", a, b)
                /\ bookings[b].user = a
                /\ bookings[b].status # "confirmed") =>
                /\ response' = Response("updateBooking", a, b, Null, 400,
                                        "Cannot modify booking in current status")
                /\ reqs' = reqs
                /\ bookings' = bookings
                /\ available' = available
          /\ (Answers("updateBooking", b, 200) /\ response'.user = a) =>
                /\ \E q \in Slots : /\ At(q, "updateBooking", "saveBooking")
                                    /\ reqs[q].bid = b
                                    /\ reqs[q].seen = "confirmed"
                                    /\ reqs'[q] = Idle
                /\ bookings' = [bookings EXCEPT
                                  ![b].specialRequests = bookings'[b].specialRequests]
                /\ available' = available
          /\ (response'.op = "updateBooking" /\ response'.bid = b
                /\ response'.user = a /\ response'.res # 200) =>
                /\ bookings' = bookings
                /\ available' = available]_vars

\* a guest's update of their confirmed booking has just stored the special requests
C22_Witness ==
    /\ response.op = "updateBooking"
    /\ response.user \in Users
    /\ response.res = 200
    /\ bookings[response.bid].specialRequests = "late"
    /\ bookings[response.bid].status = "confirmed"

\* the bookings of room r that hold a unit of it
Holding(r) == {b \in BookingsOf(r) : bookings[b].status \in {"confirmed", "checked-in"}}

\* C27: availability is conserved: whenever no request is being handled, for
\* every room the available counter plus the number of the room's bookings in
\* status 'confirmed' or 'checked-in' equals the room's initial available count.
C27_AvailabilityConserved ==
    (\A q \in Slots : reqs[q] = Idle) =>
        \A r \in Rooms : available[r] + Cardinality(Holding(r)) = total[r]

\* C24: the step that answers a guest's update of a service request changes
\* nothing of the stored bookings except, possibly, the rating of that service
\* request: its status, assignedStaff and resolution stay as they were; and it
\* changes the rating only if the request was loaded with status 'resolved', so
\* a rating sent for a request loaded as open, assigned, in-progress or closed
\* is not stored.
C24_GuestRatesResolved ==
    [][\A q \in Slots :
          (/\ At(q, "updateServiceRequest", "saveBooking")
           /\ RoleOf(reqs[q].user) = "user"
           /\ reqs'[q] = Idle) =>
              LET b == reqs[q].bid
                  n == reqs[q].room
              IN  /\ bookings' = [bookings EXCEPT ![b].serviceRequests[n].rating =
                                      bookings'[b].serviceRequests[n].rating]
                  /\ reqs[q].seen # "resolved" => bookings' = bookings]_vars

\* a guest has just rated a resolved service request
C24_Witness ==
    /\ response.op = "updateServiceRequest"
    /\ response.user \in Users
    /\ response.res = 200
    /\ \E n \in 1..Len(bookings[response.bid].serviceRequests) :
          /\ bookings[response.bid].serviceRequests[n].rating = 4
          /\ bookings[response.bid].serviceRequests[n].status = "resolved"

\* a guest's update of a service request that is not resolved was answered 200
\* and the rating it sent was not stored
C24_WitnessNotStored ==
    /\ response.op = "updateServiceRequest"
    /\ response.user \in Users
    /\ response.res = 200
    /\ \E n \in 1..Len(bookings[response.bid].serviceRequests) :
          /\ bookings[response.bid].serviceRequests[n].rating = 0
          /\ bookings[response.bid].serviceRequests[n].status = "open"

\* C23: in every reachable state a booking that carries a review has status
\* 'checked-out'.
C23_ReviewedIsCheckedOut ==
    \A b \in 1..Len(bookings) :
        bookings[b].review # 0 => bookings[b].status = "checked-out"

\* this step is a step of a request sent by a
StepOf(a) ==
    \/ response'.op # "none" /\ response'.user = a
    \/ \E q \in Slots : reqs'[q] # reqs[q] /\ reqs'[q].user = a

\* C29: no step of a request sent by an actor with role 'user' changes a stored
\* booking that another user owns.
C29_UserLeavesOthersBookings ==
    [][\A a \in Users, b \in 1..Len(bookings) :
          (StepOf(a) /\ bookings[b].user # a) => bookings'[b] = bookings[b]]_vars

\* the price a booking keeps of its package, 0 without one
SnapshotPrice(b) == IF b.selectedPackage = NoDoc THEN 0 ELSE b.selectedPackage.price

\* the stored total is priced with the package price the booking keeps
PricedWithSnapshot(b) ==
    /\ b.pricing.packagePrice = SnapshotPrice(b)
    /\ 100 * b.pricing.totalAmount =
          (100 + TaxPercent) * (b.pricing.roomRate * b.numberOfNights + SnapshotPrice(b)
                                  + b.pricing.servicesTotal + b.pricing.foodTotal)
          - 100 * b.pricing.discountAmount

\* C25: a booking's package data is a snapshot: no step changes the
\* selectedPackage or the pricing.packagePrice of a stored booking; a step that
\* edits or deletes a package changes no stored booking (its totalAmount
\* included); and after every step, the add-service and add-food-order
\* recomputations among them, every stored booking's total is priced with the
\* package price the booking keeps.
C25_PackageIsSnapshot ==
    [][/\ \A b \in 1..Len(bookings) :
             /\ bookings'[b].selectedPackage = bookings[b].selectedPackage
             /\ bookings'[b].pricing.packagePrice = bookings[b].pricing.packagePrice
       /\ response'.op \in {"updatePackage", "deletePackage"} => bookings' = bookings
       /\ \A b \in 1..Len(bookings') : PricedWithSnapshot(bookings'[b])]_vars

\* a booking made with the package at 1000 less 10% has had a service added after
\* the package's price was set to 1500: it still keeps 900
C25_Witness ==
    /\ response.op = "addServiceToBooking"
    /\ response.res = 200
    /\ bookings[response.bid].selectedPackage # NoDoc
    /\ bookings[response.bid].pricing.packagePrice = 900
    /\ Len(bookings[response.bid].additionalServices) = 1
    /\ packages["p1"] # NoDoc
    /\ packages["p1"].price = 1500

\* the condition the package is available under: active, not before the start
\* date, not after the end date, not on the calendar day of a blackout date
AvailableOn(pkg, date) ==
    /\ pkg.isActive
    /\ pkg.availability.startDate # Unset => ~(date < pkg.availability.startDate[1])
    /\ pkg.availability.endDate # Unset => ~(date > pkg.availability.endDate[1])
    /\ \A i \in 1..Len(pkg.availability.blackoutDates) :
          pkg.availability.blackoutDates[i] \div DayLen # date \div DayLen

\* C26: isAvailable(date) is true exactly when the package is active, the date
\* is not before the start date (if set), not after the end date (if set) and
\* not on the calendar day of a blackout date: for every stored package and
\* every date, and in the answer of every availability request.
C26_IsAvailable ==
    /\ \A p \in PackageIds, date \in DateInputs :
          packages[p] # NoDoc =>
             (isAvailable(packages[p], date) <=> AvailableOn(packages[p], date))
    /\ (response.op = "checkPackageAvailability" /\ response.res = 200) =>
          (response.isAvailable <=> AvailableOn(packages[response.rid], response.checkDate))

\* an availability request for an active package, for a date inside its window
\* and later on the day of a blackout date, has been answered false
C26_Witness ==
    /\ response.op = "checkPackageAvailability"
    /\ response.res = 200
    /\ ~response.isAvailable
    /\ LET pkg == packages[response.rid] IN
       /\ pkg.isActive
       /\ pkg.availability.startDate = <<2>>
       /\ pkg.availability.endDate = <<5>>
       /\ pkg.availability.blackoutDates = <<4>>
       /\ response.checkDate = 5

\* C28: an order's paymentStatus becomes 'completed' only in a step of a
\* confirm-payment request for which the gateway reported success and which
\* named the intent stored in the order's paymentIntentId.
C28_OwnIntentCompletes ==
    [][\A o \in 1..Len(orders) :
          (orders'[o].paymentStatus = "completed"
              /\ orders[o].paymentStatus # "completed") =>
              \E q \in Slots : /\ At(q, "confirmPayment", "completePayment")
                               /\ reqs[q].bid = o
                               /\ reqs[q].room = orders[o].paymentIntentId]_vars

\* the lock of the stored account has run out
LockExpired == account.lockUntil # Unset /\ account.lockUntil[1] < now

\* C30: an account lock is temporary: a login request with the correct password
\* that arrives after the account's lockUntil time has passed is not refused as
\* locked.
C30_LockIsTemporary ==
    [][(/\ started' = started + 1
        /\ LockExpired
        /\ response'.op = "login"
        /\ response'.password = "right") =>
            response'.err # "Account is temporarily locked"]_vars

====
